---- MODULE Spec2Model ----
(***************************************************************************)
(* Eterna DEX engine: the order execution pipeline.                        *)
(*                                                                         *)
(*   Spec          the program as wired by src/api/index.ts and            *)
(*                 src/engine/engine.ts: the requests POST /execute-order  *)
(*                 accepts, GET /ws/:id, the BullMQ queue and the Engine   *)
(*                 workers.                                                *)
(*   SpecApi       the API server of src/api/index.ts alone, with every    *)
(*                 kind of request body, those it refuses included.        *)
(*   SpecRegistry  the RedisManager class driven through its public        *)
(*                 methods and its "message" handler by an arbitrary       *)
(*                 gateway and an arbitrary publisher on the channel.      *)
(***************************************************************************)
EXTENDS Integers, Sequences, FiniteSets, Bags, TLC

(* ----------------------------- bounds ---------------------------------- *)
\* orders accepted by POST /execute-order in one run
MaxOrders == 2
\* Engine processes consuming the queue (one BullMQ Worker each)
NumWorkers == 2
\* websocket connections opened on GET /ws/:orderId in one run
MaxConns == 1
\* errors raised by the environment (store, queue, venues, redis, sockets) and
\* exits of an Engine process in one run, not counting the error of a write made
\* by a catch block
MaxFaults == 1
\* SpecRegistry: calls of addOrderExecutionJob, handles, messages on the channel
MaxKeys == 2
MaxHandles == 2
MaxMsgs == 2

(* ------------------------ program constants ---------------------------- *)
\* CONFIG.MAX_RETRY
MAX_RETRY == 3
\* attempts of a job added without options: queue.add("execute_order", orderData)
JobAttempts == 1
\* times the stalled-jobs check of a Worker created without options moves a job
\* back to the waiting ones before it fails the job
MaxStalledCount == 1

Null == "null"
Tokens == {"SOL", "USDC", "USDT", "BTC", "ETH"}
Dexes == {"raydium", "meteora"}
Workers == 1..NumWorkers
Conns == 1..MaxConns
Handles == 1..MaxHandles

\* identifiers: the Orders table's primary key, and crypto.randomUUID()
OrderId(n) == <<"order", n>>
Uuid(n) == <<"uuid", n>>
\* no identifier
NoId == <<"null", 0>>

Happy == <<"pending", "routing", "building", "submitted", "confirmed">>

VARIABLES
  orders,      \* the Orders table: id -> record
  written,     \* history: id -> the statuses persisted for it, in order
  accepted,    \* history: the bag of the orderIds sent in 200 replies
  posts,       \* POST /execute-order requests suspended in addOrderExecutionJob:
               \* [id of the record created, body]
  reply,       \* the HTTP reply sent by the step just taken, if any
  queue,       \* BullMQ: the waiting jobs, in order
  jobs,        \* BullMQ: orderId -> state of its job and attempts made
  worker,      \* Engine: worker -> position in ExecuteOrder and its locals
  published,   \* history: id -> the StatusUpdates published for it, in order
  faults,      \* errors raised so far by the environment
  subscribed,  \* whether SendUpdateToClients has installed the message handler
  channel,     \* order_updates messages in flight to the message handler
  msgCount,    \* history: messages put on the channel so far
  OrderMap,    \* RedisManager.OrderMap: key -> [status, clients]
  uuids,       \* number of crypto.randomUUID() values drawn
  fanout,      \* the message handler's forEach in progress, or its last outcome
  conns,       \* websocket connections: conn -> state
  received,    \* what each handle was sent, in order: [text, id of the message]
  dropped,     \* history: the messages whose handler run found no handle
  quiet,       \* history: ids of messages published while no handle was registered
  calls,       \* history: registry calls that raised; in SpecSubscribe also the
               \* subscribe calls made since the handle's last unsubscribe
  quotes,      \* SpecRouter: the outcome of getQuote of each venue, in order
  bestRoute    \* SpecRouter: the outcome of getBestRoute on them

vars == <<orders, written, accepted, posts, reply, queue, jobs, worker, published,
          faults, subscribed, channel, msgCount, OrderMap, uuids, fanout, conns,
          received, dropped, quiet, calls, quotes, bestRoute>>

apiVars == <<orders, written, accepted, posts>>
queueVars == <<queue, jobs>>
registryVars == <<OrderMap, uuids>>
fanoutVars == <<subscribed, channel, msgCount, fanout, dropped, quiet>>
routerVars == <<quotes, bestRoute>>

(* ----------------------------- helpers --------------------------------- *)
IsPrefix(s, t) == Len(s) <= Len(t) /\ SubSeq(t, 1, Len(s)) = s

Front(s) == SubSeq(s, 1, Len(s) - 1)

Range(s) == {s[i] : i \in 1..Len(s)}

\* a sequence without the entries equal to x
RECURSIVE Without(_, _)
Without(s, x) ==
  IF s = <<>> THEN <<>>
  ELSE IF Head(s) = x THEN Without(Tail(s), x)
       ELSE <<Head(s)>> \o Without(Tail(s), x)

CanFail == faults < MaxFaults

(* ------------------ src/lib/schema.ts: RequestSwapSchema --------------- *)
\* request bodies tried on POST /execute-order; Null marks an absent field
Bodies ==
  { [userAddress |-> "0xabc", tokenIn |-> "ETH", tokenOut |-> "USDC", amount |-> 1],
    [userAddress |-> Null, tokenIn |-> "ETH", tokenOut |-> "USDC", amount |-> 1],
    [userAddress |-> "0xabc", tokenIn |-> "ETH", tokenOut |-> "ETH", amount |-> 1],
    [userAddress |-> "0xabc", tokenIn |-> "INVALID", tokenOut |-> "USDC", amount |-> 1],
    [userAddress |-> "0xabc", tokenIn |-> "ETH", tokenOut |-> "USDC", amount |-> -1],
    [userAddress |-> "0xabc", tokenIn |-> "ETH", tokenOut |-> "USDC", amount |-> 0],
    [userAddress |-> Null, tokenIn |-> "ETH", tokenOut |-> "ETH", amount |-> 1] }

\* SafeParse without the test of the amount
SafeParseAnyAmount(b) ==
  /\ b.userAddress # Null
  /\ b.tokenIn \in Tokens
  /\ b.tokenOut \in Tokens

\* RequestSwapSchema.safeParse(body).success
SafeParse(b) ==
  /\ b.userAddress # Null
  /\ b.tokenIn \in Tokens
  /\ b.tokenOut \in Tokens
  /\ b.amount > 0

\* no request body
NoBody == [userAddress |-> Null, tokenIn |-> Null, tokenOut |-> Null, amount |-> 0]

\* the reply to a request: the status code and the status and orderId of its
\* body; body is history, the request body that is answered
Reply(code, status, orderId, body) ==
  [code |-> code, status |-> status, orderId |-> orderId, body |-> body]

NoReply == Reply(0, Null, NoId, NoBody)

\* a step that answers no HTTP request leaves no reply
Silent == reply' = NoReply

(* ------------------ src/api/redisManager.ts: RedisManager -------------- *)
\* a deleted entry of a Set that a forEach is still walking
Empty == 0

NoFanout == [state |-> "idle"]

\* fanout: [state |-> "idle"], the forEach of the handler in the middle of a
\* send ("running", with the order, the message, the position in the Set, the
\* handle being sent to, and as history the handles registered when it began,
\* those removed before it reached them and those whose send returned), or how
\* the last one ended ("done", "raised")

\* the clients Set of a key is being walked by the message handler
Walking(o) == fanout.state = "running" /\ fanout.key = o

\* clients kept as an array: push adds the handle once more
MapAfterSubscribePushing(o, h) ==
  IF o \in DOMAIN OrderMap
  THEN [OrderMap EXCEPT ![o].clients = Append(@, h)]
  ELSE OrderMap

\* this.OrderMap.get(orderId)?.clients.add(client)
MapAfterSubscribe(o, h) ==
  IF o \in DOMAIN OrderMap /\ h \notin Range(OrderMap[o].clients)
  THEN [OrderMap EXCEPT ![o].clients = Append(@, h)]
  ELSE OrderMap

\* this.OrderMap.get(orderId)?.clients.delete(client): the entry of the key
\* stays in the map; a Set under iteration keeps the position of a deleted
\* element so that the walk skips it
MapAfterUnsubscribe(o, h) ==
  IF o \in DOMAIN OrderMap
  THEN IF Walking(o)
       THEN [OrderMap EXCEPT ![o].clients =
               [i \in 1..Len(@) |-> IF @[i] = h THEN Empty ELSE @[i]]]
       ELSE [OrderMap EXCEPT ![o].clients = Without(@, h)]
  ELSE OrderMap

\* whether UnsubscribeFromOrderUpdates(o, h) raises: optional chaining never does
UnsubscribeRaises(o, h) == FALSE

\* the handles registered for a key
Registered(o) ==
  IF o \in DOMAIN OrderMap THEN Range(OrderMap[o].clients) \ {Empty} ELSE {}

\* addOrderExecutionJob(orderData): draws a UUID, adds the job, registers the
\* UUID in OrderMap; an error of queue.add is caught and "" is returned
AddJobOk(orderData) ==
  /\ uuids' = uuids + 1
  /\ jobs' = Append(jobs, [data |-> orderData, state |-> "waiting",
                           attemptsMade |-> 0, raised |-> 0, stalls |-> 0,
                           pubErrors |-> 0, quoteFailed |-> FALSE,
                           writeLost |-> FALSE])
  /\ queue' = Append(queue, Len(jobs) + 1)
  /\ OrderMap' = OrderMap @@
       (Uuid(uuids + 1) :> [status |-> "pending", clients |-> <<>>])
  /\ UNCHANGED faults

AddJobThrows(orderData) ==
  /\ CanFail
  /\ faults' = faults + 1
  /\ uuids' = uuids + 1
  /\ UNCHANGED <<jobs, queue, OrderMap>>

addOrderExecutionJob(orderData) ==
  AddJobOk(orderData) \/ AddJobThrows(orderData)

(* ------------------------- src/api/index.ts ---------------------------- *)
\* connection.send(`Connected to order ${orderId} updates`): not a JSON text
Greeting(o) == [kind |-> "text", body |-> <<"Connected to order", o, "updates">>]

\* POST /execute-order, body refused by the schema or by the equal-token test
PostReject(b) ==
  /\ ~SafeParse(b) \/ b.tokenIn = b.tokenOut
  /\ reply' = Reply(400, "error", NoId, b)
  /\ UNCHANGED <<apiVars, queueVars, worker, published, faults,
                 registryVars, fanoutVars, conns, received, calls, routerVars>>

NewRecord(id, b) ==
  [id |-> id, orderType |-> "swap", tokenIn |-> b.tokenIn, tokenOut |-> b.tokenOut,
   amount |-> b.amount, status |-> "pending", selectedDex |-> Null,
   executedPrice |-> Null, txHash |-> Null, errorMessage |-> Null]

\* the ids prisma may hand to the INSERT of a record, the data giving none: one
\* that is new, or one a record has already
GeneratedIds == {OrderId(Cardinality(DOMAIN orders) + 1)} \cup DOMAIN orders

\* the function f with the value v at k
Put(f, k, v) == [x \in DOMAIN f \cup {k} |-> IF x = k THEN v ELSE f[x]]

\* an Orders table without its primary key: no INSERT is refused
InsertRaisesNever(id) == FALSE

\* Orders_pkey: the INSERT of a row whose id a row has is refused
InsertRaises(id) == id \in DOMAIN orders

\* POST /execute-order up to the await of addOrderExecutionJob: the record is created
PostCreate(b) ==
  /\ SafeParse(b) /\ b.tokenIn # b.tokenOut
  /\ Cardinality(DOMAIN orders) < MaxOrders
  /\ \E id \in GeneratedIds :
       /\ ~InsertRaises(id)
       /\ orders' = Put(orders, id, NewRecord(id, b))
       /\ written' = Put(written, id, <<"pending">>)
       /\ published' = Put(published, id, <<>>)
       /\ posts' = posts \cup {[id |-> id, body |-> b]}
  /\ reply' = NoReply
  /\ UNCHANGED <<accepted, queueVars, worker, faults, registryVars,
                 fanoutVars, conns, received, calls, routerVars>>

\* prisma.orders.create raises: the handler's catch answers 500
PostCreateThrows(b) ==
  /\ SafeParse(b) /\ b.tokenIn # b.tokenOut
  /\ CanFail
  /\ faults' = faults + 1
  /\ reply' = Reply(500, "error", NoId, b)
  /\ UNCHANGED <<apiVars, queueVars, worker, published,
                 registryVars, fanoutVars, conns, received, calls, routerVars>>

\* prisma.orders.create raises on an id that is taken: the handler's catch
\* answers 500
PostCreateDuplicate(b) ==
  /\ SafeParse(b) /\ b.tokenIn # b.tokenOut
  /\ \E id \in GeneratedIds : InsertRaises(id)
  /\ reply' = Reply(500, "error", NoId, b)
  /\ UNCHANGED <<apiVars, queueVars, worker, published, faults,
                 registryVars, fanoutVars, conns, received, calls, routerVars>>

\* POST /execute-order from addOrderExecutionJob to the reply; the value
\* addOrderExecutionJob returns is not looked at
PostEnqueue(p) ==
  /\ p \in posts
  /\ addOrderExecutionJob([orderId |-> p.id, tokenIn |-> p.body.tokenIn,
                           tokenOut |-> p.body.tokenOut, amount |-> p.body.amount])
  /\ posts' = posts \ {p}
  /\ reply' = Reply(200, "order received", p.id, p.body)
  /\ accepted' = accepted (+) SetToBag({p.id})
  /\ UNCHANGED <<orders, written, worker, published, fanoutVars, conns,
                 received, calls, routerVars>>

\* the order ids clients have been told
Acked == DOMAIN orders \ {p.id : p \in posts}

\* GET /ws/:orderId: greet, then SubscribeToOrderUpdates(orderId, connection)
WsConnect(c, o) ==
  /\ Silent
  /\ conns[c].state = "new"
  /\ o \in Acked
  /\ received' = [received EXCEPT ![c] = Append(@, [text |-> Greeting(o), id |-> 0])]
  /\ OrderMap' = MapAfterSubscribe(o, c)
  /\ conns' = [conns EXCEPT ![c] =
       [state |-> "open", orderId |-> o,
        early |-> published[o] = <<>>]]
  /\ UNCHANGED <<apiVars, queueVars, worker, published, faults, uuids,
                 fanoutVars, calls, routerVars>>

\* connection.on("close"): UnsubscribeFromOrderUpdates(orderId, connection)
WsClose(c) ==
  /\ Silent
  /\ conns[c].state = "open"
  /\ OrderMap' = MapAfterUnsubscribe(conns[c].orderId, c)
  /\ calls' = IF UnsubscribeRaises(conns[c].orderId, c)
              THEN calls \cup {<<"unsubscribe", conns[c].orderId, c>>} ELSE calls
  /\ conns' = [conns EXCEPT ![c] = [state |-> "closed", orderId |-> NoId, early |-> FALSE]]
  /\ UNCHANGED <<apiVars, queueVars, worker, published, faults, uuids,
                 fanoutVars, received, routerVars>>

(* -------------- src/engine/services.ts: dexHandler.getBestRoute -------- *)
\* the venues, in the order dexHandler declares and queries them
Venues == <<"raydium", "meteora">>

\* prices and fees (in percent of the price) a venue may quote
Prices == {99, 100, 102}
Fees == {0, 1, 2}

\* a Quote {dex, price, fee}, and the outcome of a getQuote that rejects
Quote(v, p, f) == [ok |-> TRUE, dex |-> v, price |-> p, fee |-> f]
QuoteError(v) == [ok |-> FALSE, dex |-> v, price |-> 0, fee |-> 0]

\* the outcomes of Promise.all's arguments: one per venue, in order
QuoteInputs ==
  { q \in [1..Len(Venues) ->
            [ok : BOOLEAN, dex : Range(Venues), price : Prices \cup {0},
             fee : Fees]] :
      \A i \in 1..Len(Venues) :
        \/ q[i] = QuoteError(Venues[i])
        \/ \E p \in Prices : \E f \in Fees : q[i] = Quote(Venues[i], p, f) }

\* Promise.all rejects as soon as one of its promises rejects
AnyQuoteFails(q) == \E i \in 1..Len(q) : ~q[i].ok

\* the effective cost price * (1 + fee), times 100
Cost(q) == q.price * (100 + q.fee)

\* BestOf that compares the prices and leaves the fees out
RECURSIVE BestOfByPrice(_, _, _)
BestOfByPrice(q, i, best) ==
  IF i > Len(q) THEN best
  ELSE BestOfByPrice(q, i + 1, IF q[i].price < best.price THEN q[i] ELSE best)

\* the comparison of getBestRoute: walk the quotes in order and keep the one
\* with the smaller effective cost, the earlier one when they are equal
RECURSIVE BestOf(_, _, _)
BestOf(q, i, best) ==
  IF i > Len(q) THEN best
  ELSE BestOf(q, i + 1, IF Cost(q[i]) < Cost(best) THEN q[i] ELSE best)

NotRouted == [state |-> "none"]

\* the quotes that were returned
Returned(q) == SelectSeq(q, LAMBDA x : x.ok)

\* getBestRoute with Promise.allSettled: a venue whose quote failed is left out
getBestRouteSkipping(q) ==
  IF Returned(q) = <<>> THEN [state |-> "raised"]
  ELSE [state |-> "returned", quote |-> BestOf(Returned(q), 2, Returned(q)[1])]

\* getBestRoute once the quotes have settled: the best Quote, or the rejection
getBestRoute(q) ==
  IF AnyQuoteFails(q) THEN [state |-> "raised"]
  ELSE [state |-> "returned", quote |-> BestOf(q, 2, q[1])]

\* what a call of getBestRoute can come to: whether a quote failed, and the
\* venue of the quote returned or the rejection
RouteOutcomes ==
  { [failed |-> AnyQuoteFails(q),
     state |-> getBestRoute(q).state,
     dex |-> IF getBestRoute(q).state = "returned"
             THEN getBestRoute(q).quote.dex ELSE Null] : q \in QuoteInputs }

\* SpecRouter: getBestRoute is called and the venues' quotes settle
GetBestRoute ==
  /\ bestRoute = NotRouted
  /\ bestRoute' = getBestRoute(quotes)
  /\ UNCHANGED <<apiVars, reply, queueVars, worker, published, faults, registryVars,
                 fanoutVars, conns, received, calls, quotes>>

(* ------------------------ src/engine/engine.ts ------------------------- *)
NoResult == [txHash |-> Null, executedPrice |-> Null]

\* raised, pubErrors, quoteFailed and writeLost are history: whether the
\* execution reached its catch block, the publish errors publishOrderUpdate
\* caught in it, whether the quote of a venue failed in it and whether a
\* prisma update of it raised; ended is the job whose processing this worker
\* ended last
Idle ==
  [pc |-> "idle", job |-> 0, dex |-> Null, result |-> NoResult, raised |-> FALSE,
   pubErrors |-> 0, quoteFailed |-> FALSE, writeLost |-> FALSE, ended |-> 0]

\* a worker between two jobs
IdleAfter(j) == [Idle EXCEPT !.ended = j]

\* orderData.orderId of the job a worker is processing
OrderOf(w) == jobs[worker[w].job].data.orderId

\* an update that puts data in the place of the record: fields not given are lost
MergeReplacing(rec, data) ==
  [f \in DOMAIN rec |-> IF f \in DOMAIN data THEN data[f] ELSE Null]

\* a record with the fields of data written over it
Merge(rec, data) ==
  [f \in DOMAIN rec |-> IF f \in DOMAIN data THEN data[f] ELSE rec[f]]

\* JSON.stringify of a StatusUpdate, and JSON.parse of the result
Stringify(data) == [kind |-> "json", body |-> data]
Parse(text) == text.body

StatusUpdate(o, status, message) ==
  [orderId |-> o, status |-> status, message |-> message]

\* a message on the order_updates channel; id is history
Envelope(text, n) == [text |-> text, id |-> n]

\* redis delivers a published text to the subscriber connection, if there is one
Deliver(text) ==
  IF subscribed
  THEN /\ channel' = Append(channel, Envelope(text, msgCount + 1))
       /\ msgCount' = msgCount + 1
       /\ quiet' = IF Registered(Parse(text).orderId) = {}
                   THEN quiet \cup {msgCount + 1} ELSE quiet
  ELSE UNCHANGED <<channel, msgCount, quiet>>

engineFrame == <<accepted, posts, registryVars, subscribed, fanout, dropped,
                 conns, received, calls, routerVars>>

\* StartJob without the lock of the job: the job stays with the waiting ones
StartJobUnlocked(w) ==
  /\ Silent
  /\ worker[w].pc = "idle"
  /\ queue # <<>>
  /\ LET j == Head(queue) IN
       /\ jobs' = [jobs EXCEPT ![j].state = "active", ![j].attemptsMade = @ + 1]
       /\ worker' = [worker EXCEPT ![w] = [Idle EXCEPT !.pc = "write_routing", !.job = j,
                                                        !.ended = worker[w].ended]]
  /\ UNCHANGED <<queue, orders, written, published, faults, channel, msgCount, quiet,
                 engineFrame>>

\* StartJob of a Worker that takes jobs while it is processing one
StartJobBusy(w) ==
  /\ Silent
  /\ queue # <<>>
  /\ LET j == Head(queue) IN
       /\ jobs' = [jobs EXCEPT ![j].state = "active", ![j].attemptsMade = @ + 1]
       /\ worker' = [worker EXCEPT ![w] = [Idle EXCEPT !.pc = "write_routing", !.job = j,
                                                        !.ended = worker[w].ended]]
  /\ queue' = Tail(queue)
  /\ UNCHANGED <<orders, written, published, faults, channel, msgCount, quiet, engineFrame>>

\* the processor of the BullMQ Worker takes the next waiting job
StartJob(w) ==
  /\ Silent
  /\ worker[w].pc = "idle"
  /\ queue # <<>>
  /\ LET j == Head(queue) IN
       /\ jobs' = [jobs EXCEPT ![j].state = "active", ![j].attemptsMade = @ + 1]
       /\ worker' = [worker EXCEPT ![w] = [Idle EXCEPT !.pc = "write_routing", !.job = j,
                                                        !.ended = worker[w].ended]]
  /\ queue' = Tail(queue)
  /\ UNCHANGED <<orders, written, published, faults, channel, msgCount, quiet, engineFrame>>

\* await this.prisma.order.update({where, data}) returns
Persist(w, at, data, next) ==
  /\ Silent
  /\ worker[w].pc = at
  /\ orders' = [orders EXCEPT ![OrderOf(w)] = Merge(@, data)]
  /\ written' = [written EXCEPT ![OrderOf(w)] = Append(@, data.status)]
  /\ worker' = [worker EXCEPT ![w].pc = next]
  /\ UNCHANGED <<queueVars, published, faults, channel, msgCount, quiet, engineFrame>>

\* an awaited call inside the try block raises: control goes to the catch block
Raise(w, at) ==
  /\ Silent
  /\ worker[w].pc = at
  /\ CanFail
  /\ faults' = faults + 1
  /\ worker' = [worker EXCEPT ![w].pc = "catch", ![w].raised = TRUE]
  /\ UNCHANGED <<orders, written, queueVars, published, channel, msgCount, quiet, engineFrame>>

\* await this.prisma.order.update({where, data}) raises inside the try block:
\* the write is lost and control goes to the catch block
PersistThrows(w, at) ==
  /\ Silent
  /\ worker[w].pc = at
  /\ CanFail
  /\ faults' = faults + 1
  /\ worker' = [worker EXCEPT ![w].pc = "catch", ![w].raised = TRUE,
                              ![w].writeLost = TRUE]
  /\ UNCHANGED <<orders, written, queueVars, published, channel, msgCount, quiet, engineFrame>>

\* an awaited call of a venue never settles: ExecuteOrder stays at its await, which
\* no timeout races
Hang(w, at, hung) ==
  /\ Silent
  /\ worker[w].pc = at
  /\ CanFail
  /\ faults' = faults + 1
  /\ worker' = [worker EXCEPT ![w].pc = hung]
  /\ UNCHANGED <<orders, written, queueVars, published, channel, msgCount, quiet, engineFrame>>

\* publishOrderUpdate(updateData): redis publish, its error caught and logged
PublishOk(update) ==
  /\ published' = [published EXCEPT ![update.orderId] = Append(@, update)]
  /\ Deliver(Stringify(update))
  /\ UNCHANGED faults

PublishThrows(update) ==
  /\ CanFail
  /\ faults' = faults + 1
  /\ UNCHANGED <<published, channel, msgCount, quiet>>

publishOrderUpdate(update) == PublishOk(update) \/ PublishThrows(update)

\* the processor returns: BullMQ marks the job completed
Completed(w) ==
  /\ jobs' = [jobs EXCEPT ![worker[w].job].state = "completed",
                          ![worker[w].job].raised =
                             @ + (IF worker[w].raised THEN 1 ELSE 0),
                          ![worker[w].job].pubErrors =
                             @ + worker[w].pubErrors + (faults' - faults),
                          ![worker[w].job].quoteFailed = @ \/ worker[w].quoteFailed,
                          ![worker[w].job].writeLost = @ \/ worker[w].writeLost]
  /\ worker' = [worker EXCEPT ![w] = IdleAfter(worker[w].job)]
  /\ UNCHANGED queue

\* the processor rejects: BullMQ retries the job while attempts remain
Failed(w) ==
  LET j == worker[w].job IN
  /\ jobs' = [jobs EXCEPT ![j].state =
                 IF jobs[j].attemptsMade < JobAttempts THEN "waiting" ELSE "failed",
                          ![j].raised = @ + 1,
                          ![j].pubErrors = @ + worker[w].pubErrors,
                          ![j].quoteFailed = @ \/ worker[w].quoteFailed,
                          ![j].writeLost = TRUE]
  /\ queue' = IF jobs[j].attemptsMade < JobAttempts THEN Append(queue, j) ELSE queue
  /\ worker' = [worker EXCEPT ![w] = IdleAfter(worker[w].job)]

\* the Engine process exits in the middle of a job and is started again: the job
\* stays with the active ones, its lock is renewed no longer
ProcessExits(w) ==
  /\ Silent
  /\ worker[w].pc # "idle"
  /\ CanFail
  /\ faults' = faults + 1
  /\ worker' = [worker EXCEPT ![w] = IdleAfter(worker[w].ended)]
  /\ UNCHANGED <<orders, written, queueVars, published, channel, msgCount, quiet,
                 engineFrame>>

\* an active job that no worker is processing
Stalled(j) == jobs[j].state = "active" /\ \A w \in Workers : worker[w].job # j

\* the stalled-jobs check of a Worker: a job whose lock expired goes back to the
\* waiting ones, to be taken next, or is failed when it stalled too often
MoveStalledJobsToWait(j) ==
  /\ Silent
  /\ Stalled(j)
  /\ IF jobs[j].stalls < MaxStalledCount
     THEN /\ jobs' = [jobs EXCEPT ![j].state = "waiting", ![j].stalls = @ + 1]
          /\ queue' = <<j>> \o queue
     ELSE /\ jobs' = [jobs EXCEPT ![j].state = "failed"]
          /\ UNCHANGED queue
  /\ UNCHANGED <<orders, written, worker, published, faults, channel, msgCount,
                 quiet, engineFrame>>

\* Next1 with publishOrderUpdate lacking its try/catch: the error of the publish
\* reaches the catch block of ExecuteOrder
Next1Uncaught(w, at, update, next) ==
  /\ Silent
  /\ worker[w].pc = at
  /\ \/ /\ PublishOk(update)
        /\ worker' = [worker EXCEPT ![w].pc = next]
     \/ /\ PublishThrows(update)
        /\ worker' = [worker EXCEPT ![w].pc = "catch", ![w].raised = TRUE,
                                    ![w].pubErrors = @ + 1]
  /\ UNCHANGED <<orders, written, queueVars, engineFrame>>

\* await this.publishOrderUpdate(update) inside the try block, then the next step
Next1(w, at, update, next) ==
  /\ Silent
  /\ worker[w].pc = at
  /\ publishOrderUpdate(update)
  /\ worker' = [worker EXCEPT ![w].pc = next,
                              ![w].pubErrors = @ + (faults' - faults)]
  /\ UNCHANGED <<orders, written, queueVars, engineFrame>>

\* lines 51-54
WriteRouting(w) == Persist(w, "write_routing", [status |-> "routing"], "pub_routing")
WriteRoutingThrows(w) == PersistThrows(w, "write_routing")

\* lines 56-60
PubRouting(w) ==
  Next1(w, "pub_routing",
        StatusUpdate(OrderOf(w), "routing", <<"finding best route">>), "route")

\* line 61: await this.handler.getBestRoute(...) comes to the outcome o; a quote
\* that fails is an error of the environment
RouteStep(w, o) ==
  /\ Silent
  /\ worker[w].pc = "route"
  /\ o.failed => CanFail
  /\ faults' = faults + (IF o.failed THEN 1 ELSE 0)
  /\ worker' = IF o.state = "returned"
               THEN [worker EXCEPT ![w].pc = "write_building", ![w].dex = o.dex,
                                   ![w].quoteFailed = o.failed]
               ELSE [worker EXCEPT ![w].pc = "catch", ![w].raised = TRUE,
                                   ![w].quoteFailed = o.failed]
  /\ UNCHANGED <<orders, written, queueVars, published, channel, msgCount,
                 quiet, engineFrame>>

\* line 61: handler.getBestRoute returns the quote of one venue
Route(w) == \E o \in RouteOutcomes : ~o.failed /\ RouteStep(w, o)

\* line 61: the quote of a venue fails
RouteThrows(w) == \E o \in RouteOutcomes : o.failed /\ RouteStep(w, o)

\* line 61: the getQuote of a venue never settles, and so Promise.all
RouteHangs(w) == Hang(w, "route", "route_hung")

\* lines 64-67
WriteBuilding(w) ==
  Persist(w, "write_building",
          [status |-> "building", selectedDex |-> worker[w].dex], "pub_building")
WriteBuildingThrows(w) == PersistThrows(w, "write_building")

\* lines 69-74
PubBuilding(w) ==
  Next1(w, "pub_building",
        StatusUpdate(OrderOf(w), "building",
                     <<"building transaction on", worker[w].dex>>),
        "write_submitted")

\* lines 76-79
WriteSubmitted(w) ==
  Persist(w, "write_submitted", [status |-> "submitted"], "pub_submitted")
WriteSubmittedThrows(w) == PersistThrows(w, "write_submitted")

\* lines 81-87
PubSubmitted(w) ==
  Next1(w, "pub_submitted",
        StatusUpdate(OrderOf(w), "submitted",
                     <<"submitted transaction on  network via", worker[w].dex>>),
        "execute")

\* the SwapResult of a venue
SwapResults == { [txHash |-> "0xhash", executedPrice |-> "100.2"] }

\* lines 88-92: handler.executeSwap(bestRoute.dex, params) returns
Execute(w) ==
  /\ Silent
  /\ worker[w].pc = "execute"
  /\ \E r \in SwapResults :
       worker' = [worker EXCEPT ![w].pc = "write_confirmed", ![w].result = r]
  /\ UNCHANGED <<orders, written, queueVars, published, faults, channel, msgCount,
                 quiet, engineFrame>>
ExecuteThrows(w) == Raise(w, "execute")

\* lines 88-92: the executeSwap of the venue never settles
ExecuteHangs(w) == Hang(w, "execute", "execute_hung")

\* WriteConfirmed that leaves txHash out of the data written
WriteConfirmedNoHash(w) ==
  Persist(w, "write_confirmed",
          [status |-> "confirmed",
           executedPrice |-> worker[w].result.executedPrice], "pub_confirmed")

\* lines 94-97
WriteConfirmed(w) ==
  Persist(w, "write_confirmed",
          [status |-> "confirmed", txHash |-> worker[w].result.txHash,
           executedPrice |-> worker[w].result.executedPrice], "pub_confirmed")
WriteConfirmedThrows(w) == PersistThrows(w, "write_confirmed")

\* lines 98-102, then the processor returns
PubConfirmed(w) ==
  /\ Silent
  /\ worker[w].pc = "pub_confirmed"
  /\ publishOrderUpdate(StatusUpdate(OrderOf(w), "confirmed", <<"transaction successfull">>))
  /\ Completed(w)
  /\ UNCHANGED <<orders, written, engineFrame>>

\* lines 105-108: the catch block writes failed
CatchWrite(w) ==
  /\ Silent
  /\ worker[w].pc = "catch"
  /\ orders' = [orders EXCEPT ![OrderOf(w)] = Merge(@, [status |-> "failed"])]
  /\ written' = [written EXCEPT ![OrderOf(w)] = Append(@, "failed")]
  /\ worker' = [worker EXCEPT ![w].pc = "pub_failed"]
  /\ UNCHANGED <<queueVars, published, faults, channel, msgCount, quiet, engineFrame>>

\* the write of the catch block raises: ExecuteOrder rejects, and so the processor
CatchWriteThrows(w) ==
  /\ Silent
  /\ worker[w].pc = "catch"
  /\ Failed(w)
  /\ UNCHANGED <<orders, written, published, faults, channel, msgCount, quiet,
                 engineFrame>>

\* lines 109-113, then the processor returns
PubFailed(w) ==
  /\ Silent
  /\ worker[w].pc = "pub_failed"
  /\ publishOrderUpdate(StatusUpdate(OrderOf(w), "failed", <<"order execution failed:">>))
  /\ Completed(w)
  /\ UNCHANGED <<orders, written, engineFrame>>

(* ---------- src/api/redisManager.ts: the "message" handler ------------- *)
\* the position of the first entry after position i that is not deleted, or 0
NextEntry(c, i) ==
  IF \E j \in (i + 1)..Len(c) : c[j] # Empty
  THEN CHOOSE j \in (i + 1)..Len(c) :
         c[j] # Empty /\ \A k \in (i + 1)..(j - 1) : c[k] = Empty
  ELSE 0

handlerFrame == <<apiVars, queueVars, worker, published, subscribed, msgCount,
                  uuids, conns, quiet, calls, routerVars>>

\* OnMessage that keeps a message it found no handle for at the head of the channel
OnMessageKept ==
  /\ Silent
  /\ subscribed
  /\ channel # <<>>
  /\ fanout.state # "running"
  /\ LET m == Head(channel)
         data == Parse(m.text)
         o == data.orderId
     IN IF o \in DOMAIN OrderMap /\ OrderMap[o].clients # <<>>
        THEN /\ fanout' = [state |-> "running", key |-> o, data |-> data, id |-> m.id,
                           idx |-> 1, to |-> OrderMap[o].clients[1],
                           start |-> Registered(o), removed |-> {}, sent |-> {}]
             /\ channel' = Tail(channel)
             /\ UNCHANGED dropped
        ELSE /\ fanout' = NoFanout
             /\ UNCHANGED channel
             /\ dropped' = dropped \cup
                  {[id |-> m.id, orderId |-> o, status |-> data.status]}
  /\ UNCHANGED <<handlerFrame, OrderMap, received, faults>>

\* lines 48-53: parse the message, look the clients of its order up and enter
\* forEach: the send to the first handle begins; without a handle the message
\* is gone
OnMessage ==
  /\ Silent
  /\ subscribed
  /\ channel # <<>>
  /\ fanout.state # "running"
  /\ LET m == Head(channel)
         data == Parse(m.text)
         o == data.orderId
     IN IF o \in DOMAIN OrderMap /\ OrderMap[o].clients # <<>>
        THEN /\ fanout' = [state |-> "running", key |-> o, data |-> data, id |-> m.id,
                           idx |-> 1, to |-> OrderMap[o].clients[1],
                           start |-> Registered(o), removed |-> {}, sent |-> {}]
             /\ UNCHANGED dropped
        ELSE /\ fanout' = NoFanout
             /\ dropped' = dropped \cup
                  {[id |-> m.id, orderId |-> o, status |-> data.status]}
  /\ channel' = Tail(channel)
  /\ UNCHANGED <<handlerFrame, OrderMap, received, faults>>

\* the fanout is over: the Set no longer keeps deleted positions
Compact(o) == [OrderMap EXCEPT ![o].clients = Without(@, Empty)]

\* line 53: client.socket.send(JSON.stringify(data)) returns, forEach goes on to
\* the next entry of the Set
SendReturns ==
  /\ Silent
  /\ fanout.state = "running"
  /\ received' = [received EXCEPT ![fanout.to] =
       Append(@, [text |-> Stringify(fanout.data), id |-> fanout.id])]
  /\ LET c == OrderMap[fanout.key].clients
         n == NextEntry(c, fanout.idx)
     IN IF n = 0
        THEN /\ fanout' = [state |-> "done"]
             /\ OrderMap' = Compact(fanout.key)
        ELSE /\ fanout' = [fanout EXCEPT !.idx = n, !.to = c[n],
                                         !.sent = @ \cup {fanout.to}]
             /\ UNCHANGED OrderMap
  /\ UNCHANGED <<handlerFrame, channel, dropped, faults>>

\* line 53: the send raises: forEach is left, the handler's promise rejects
SendThrows ==
  /\ Silent
  /\ fanout.state = "running"
  /\ CanFail
  /\ faults' = faults + 1
  /\ fanout' = [state |-> "raised"]
  /\ OrderMap' = Compact(fanout.key)
  /\ UNCHANGED <<handlerFrame, channel, dropped, received>>

(* ------------- RedisManager called by an arbitrary gateway ------------- *)
\* order identifiers a caller may pass: the keys handed out, and one never registered
RegIds == {Uuid(n) : n \in 1..uuids} \cup {OrderId(1)}

Statuses == {"confirmed"}

harnessFrame == <<apiVars, worker, published, conns, routerVars>>

\* addOrderExecutionJob(orderData)
RegAddJob ==
  /\ Silent
  /\ uuids < MaxKeys
  /\ addOrderExecutionJob([orderId |-> NoId, tokenIn |-> "ETH", tokenOut |-> "USDC",
                           amount |-> 1])
  /\ UNCHANGED <<harnessFrame, fanoutVars, received, calls>>

\* the position of a handle in a sequence, or 0
Position(c, h) ==
  IF \E i \in 1..Len(c) : c[i] = h THEN CHOOSE i \in 1..Len(c) : c[i] = h ELSE 0

\* SubscribeToOrderUpdates(orderId, client), also from inside a send in progress
RegSubscribe(o, h) ==
  /\ Silent
  /\ Walking(o) => Len(OrderMap[o].clients) <= MaxHandles
  /\ OrderMap' = MapAfterSubscribe(o, h)
  /\ fanout' = IF Walking(o) THEN [fanout EXCEPT !.removed = @ \ {h}] ELSE fanout
  /\ UNCHANGED <<harnessFrame, queueVars, faults, uuids, subscribed, channel,
                 msgCount, dropped, quiet, received, calls>>

\* UnsubscribeFromOrderUpdates(orderId, client), also from inside a send in progress
RegUnsubscribe(o, h) ==
  /\ Silent
  /\ OrderMap' = MapAfterUnsubscribe(o, h)
  /\ calls' = IF UnsubscribeRaises(o, h) THEN calls \cup {<<"unsubscribe", o, h>>}
              ELSE calls
  /\ fanout' = IF Walking(o) /\ Position(OrderMap[o].clients, h) > fanout.idx
               THEN [fanout EXCEPT !.removed = @ \cup {h}] ELSE fanout
  /\ UNCHANGED <<harnessFrame, queueVars, faults, uuids, subscribed, channel,
                 msgCount, dropped, quiet, received>>

\* SendUpdateToClients(): subscribe to order_updates and install the handler
SendUpdateToClients ==
  /\ Silent
  /\ ~subscribed
  /\ subscribed' = TRUE
  /\ UNCHANGED <<harnessFrame, queueVars, faults, registryVars, channel, msgCount,
                 fanout, dropped, quiet, received, calls>>

\* some publisher publishes a StatusUpdate on order_updates
RedisPublish(o, s) ==
  /\ Silent
  /\ msgCount < MaxMsgs
  /\ Deliver(Stringify(StatusUpdate(o, s, <<"update">>)))
  /\ UNCHANGED <<harnessFrame, queueVars, faults, registryVars, subscribed, fanout,
                 dropped, received, calls>>

(* --------------------------- specifications ---------------------------- *)
\* the state after construction of the API server and the Engine
InitBase ==
  /\ orders = <<>>
  /\ written = <<>>
  /\ published = <<>>
  /\ posts = {}
  /\ accepted = EmptyBag
  /\ reply = NoReply
  /\ queue = <<>>
  /\ jobs = <<>>
  /\ worker = [w \in Workers |-> Idle]
  /\ faults = 0
  /\ subscribed = FALSE
  /\ channel = <<>>
  /\ msgCount = 0
  /\ OrderMap = <<>>
  /\ uuids = 0
  /\ fanout = NoFanout
  /\ conns = [c \in Conns |-> [state |-> "new", orderId |-> NoId, early |-> FALSE]]
  /\ received = [h \in Conns \cup Handles |-> <<>>]
  /\ dropped = {}
  /\ quiet = {}
  /\ calls = {}

Init ==
  /\ InitBase
  /\ quotes = <<>>
  /\ bestRoute = NotRouted

\* the requests that reach the pipeline, and the websocket connections
Accept ==
  \/ \E b \in Bodies : PostCreate(b)
  \/ \E b \in Bodies : PostCreateThrows(b)
  \/ \E p \in posts : PostEnqueue(p)
  \/ \E c \in Conns : \E o \in Acked : WsConnect(c, o)
  \/ \E c \in Conns : WsClose(c)

\* the requests refused at the boundary: they change nothing but the reply
Refuse == \E b \in Bodies : PostReject(b) \/ PostCreateDuplicate(b)

Api == Accept \/ Refuse

ExecuteOrder(w) ==
  \/ WriteRouting(w) \/ WriteRoutingThrows(w)
  \/ PubRouting(w)
  \/ Route(w) \/ RouteThrows(w) \/ RouteHangs(w)
  \/ WriteBuilding(w) \/ WriteBuildingThrows(w)
  \/ PubBuilding(w)
  \/ WriteSubmitted(w) \/ WriteSubmittedThrows(w)
  \/ PubSubmitted(w)
  \/ Execute(w) \/ ExecuteThrows(w) \/ ExecuteHangs(w)
  \/ WriteConfirmed(w) \/ WriteConfirmedThrows(w)
  \/ PubConfirmed(w)
  \/ CatchWrite(w) \/ CatchWriteThrows(w)
  \/ PubFailed(w)

Engine ==
  \/ \E w \in Workers : StartJob(w) \/ ExecuteOrder(w) \/ ProcessExits(w)
  \/ \E j \in 1..Len(jobs) : MoveStalledJobsToWait(j)

Next == Accept \/ Engine

Spec == Init /\ [][Next]_vars

\* the Engine as Node and BullMQ schedule it: a Worker with a waiting job takes
\* it, a continuation whose awaited call has settled runs, and the stalled-jobs
\* check comes round; requests, connections and process exits are up to the
\* environment
Fairness ==
  /\ \A w \in Workers : WF_vars(StartJob(w) \/ ExecuteOrder(w))
  /\ WF_vars(\E j \in 1..Len(jobs) : MoveStalledJobsToWait(j))

SpecFair == Spec /\ Fairness

SpecApi == Init /\ [][Api]_vars

NextRegistry ==
  \/ RegAddJob
  \/ \E o \in RegIds : \E h \in Handles : RegSubscribe(o, h)
  \/ \E o \in RegIds : \E h \in Handles : RegUnsubscribe(o, h)
  \/ SendUpdateToClients
  \/ \E o \in RegIds : \E s \in Statuses : RedisPublish(o, s)
  \/ OnMessage
  \/ SendReturns
  \/ SendThrows

SpecRegistry == Init /\ [][NextRegistry]_vars

\* getBestRoute on every combination of quotes
InitRouter ==
  /\ InitBase
  /\ quotes \in QuoteInputs
  /\ bestRoute = NotRouted

NextRouter == GetBestRoute

SpecRouter == InitRouter /\ [][NextRouter]_vars

\* the failure transition alone: an execution of ExecuteOrder enters its catch
\* block after the k-th status of the order was written, the venue d selected
\* when building was; the transition may be entered once more for the job
MaxRuns == 2

\* the StatusUpdates published before the error was raised
PublishedUpTo(o, k, d) ==
  SubSeq(<<StatusUpdate(o, "routing", <<"finding best route">>),
           StatusUpdate(o, "building", <<"building transaction on", d>>),
           StatusUpdate(o, "submitted", <<"submitted transaction on  network via", d>>)>>,
         1, k - 1)

InitFailure ==
  \E k \in 1..4 : \E d \in Dexes : \E w \in Workers :
    LET o == OrderId(1)
        b == [userAddress |-> "0xabc", tokenIn |-> "ETH", tokenOut |-> "USDC",
              amount |-> 1]
    IN
    /\ orders = (o :> [NewRecord(o, b) EXCEPT
                         !.status = Happy[k],
                         !.selectedDex = IF k >= 3 THEN d ELSE Null])
    /\ written = (o :> SubSeq(Happy, 1, k))
    /\ published = (o :> PublishedUpTo(o, k, d))
    /\ posts = {}
    /\ accepted = SetToBag({o})
    /\ reply = NoReply
    /\ queue = <<>>
    /\ jobs = <<[data |-> [orderId |-> o, tokenIn |-> b.tokenIn,
                           tokenOut |-> b.tokenOut, amount |-> b.amount],
                 state |-> "active", attemptsMade |-> 1, raised |-> 0, stalls |-> 0,
                 pubErrors |-> 0, quoteFailed |-> FALSE, writeLost |-> FALSE]>>
    /\ worker = [x \in Workers |->
                  IF x = w
                  THEN [Idle EXCEPT !.pc = "catch", !.job = 1, !.raised = TRUE,
                                    !.dex = IF k >= 3 THEN d ELSE Null]
                  ELSE Idle]
    /\ faults = 0
    /\ subscribed = FALSE
    /\ channel = <<>>
    /\ msgCount = 0
    /\ OrderMap = (Uuid(1) :> [status |-> "pending", clients |-> <<>>])
    /\ uuids = 1
    /\ fanout = NoFanout
    /\ conns = [c \in Conns |-> [state |-> "new", orderId |-> NoId, early |-> FALSE]]
    /\ received = [h \in Conns \cup Handles |-> <<>>]
    /\ dropped = {}
    /\ quiet = {}
    /\ calls = {}
    /\ quotes = <<>>
    /\ bestRoute = NotRouted

\* the failure transition is entered again for a job it has run for: the job is
\* delivered once more and the first update of its execution raises
FailureAgain(w) ==
  /\ Silent
  /\ worker[w].pc = "idle"
  /\ \E j \in 1..Len(jobs) :
       /\ jobs[j].state \in {"completed", "failed"}
       /\ jobs[j].attemptsMade < MaxRuns
       /\ jobs' = [jobs EXCEPT ![j].state = "active", ![j].attemptsMade = @ + 1]
       /\ worker' = [worker EXCEPT ![w] =
                       [Idle EXCEPT !.pc = "catch", !.job = j, !.raised = TRUE,
                                    !.ended = worker[w].ended]]
  /\ UNCHANGED <<orders, written, queue, published, faults, channel, msgCount, quiet,
                 engineFrame>>

NextFailure ==
  \E w \in Workers :
    CatchWrite(w) \/ CatchWriteThrows(w) \/ PubFailed(w) \/ FailureAgain(w)

SpecFailure == InitFailure /\ [][NextFailure]_vars

(* ------- one order's registry entry, handles subscribing repeatedly ------- *)
\* the subscribe calls in force for a key and a handle: at most one entry, with
\* how often the handle was subscribed since its last unsubscribe (1, or 2 for
\* more than once) and the number of messages published before the latest
\* subscribe that was counted
Subs(o, h) == {c \in calls : c.key = o /\ c.handle = h}

\* SubscribeToOrderUpdates(orderId, client), with the call noted
SubscribeCall(o, h) ==
  /\ Silent
  /\ Walking(o) => Len(OrderMap[o].clients) <= MaxHandles
  /\ OrderMap' = MapAfterSubscribe(o, h)
  /\ fanout' = IF Walking(o) THEN [fanout EXCEPT !.removed = @ \ {h}] ELSE fanout
  /\ calls' = IF Subs(o, h) = {}
              THEN calls \cup {[call |-> "subscribe", key |-> o, handle |-> h,
                                times |-> 1, after |-> msgCount]}
              ELSE IF \E c \in Subs(o, h) : c.times = 1
                   THEN (calls \ Subs(o, h)) \cup
                          {[call |-> "subscribe", key |-> o, handle |-> h,
                            times |-> 2, after |-> msgCount]}
                   ELSE calls
  /\ UNCHANGED <<harnessFrame, queueVars, faults, uuids, subscribed, channel,
                 msgCount, dropped, quiet, received>>

\* UnsubscribeFromOrderUpdates(orderId, client), with the call noted
UnsubscribeCall(o, h) ==
  /\ Silent
  /\ OrderMap' = MapAfterUnsubscribe(o, h)
  /\ calls' = calls \ Subs(o, h)
  /\ fanout' = IF Walking(o) /\ Position(OrderMap[o].clients, h) > fanout.idx
               THEN [fanout EXCEPT !.removed = @ \cup {h}] ELSE fanout
  /\ UNCHANGED <<harnessFrame, queueVars, faults, uuids, subscribed, channel,
                 msgCount, dropped, quiet, received>>

\* addOrderExecutionJob for the one order
AddFirstJob == uuids = 0 /\ RegAddJob

\* the key a caller may pass: the one addOrderExecutionJob has drawn
SubIds == {Uuid(n) : n \in 1..uuids}

NextSubscribe ==
  \/ AddFirstJob
  \/ \E o \in SubIds : \E h \in Handles : SubscribeCall(o, h)
  \/ \E o \in SubIds : \E h \in Handles : UnsubscribeCall(o, h)
  \/ SendUpdateToClients
  \/ \E o \in SubIds : \E s \in Statuses : RedisPublish(o, s)
  \/ OnMessage
  \/ SendReturns
  \/ SendThrows

SpecSubscribe == Init /\ [][NextSubscribe]_vars

(* ------------------------------ claims --------------------------------- *)
Ended(j) == jobs[j].state \in {"completed", "failed"}

JobIds == 1..Len(jobs)

Count(s, x) == Cardinality({i \in 1..Len(s) : s[i] = x})

\* a prefix of the happy path, or such a prefix short of confirmed followed by failed
ValidHistory(s) ==
  \/ Len(s) >= 1 /\ IsPrefix(s, Happy)
  \/ /\ Len(s) >= 2
     /\ s[Len(s)] = "failed"
     /\ IsPrefix(Front(s), Happy)
     /\ Front(s) # Happy

\* C1: under any number of attempts and redeliveries of its job, the statuses
\* written to an order record, in order, are a prefix of pending, routing,
\* building, submitted, confirmed, or such a prefix followed by failed; nothing is
\* written after confirmed or failed.
C1_StatusSequence == \A o \in DOMAIN written : ValidHistory(written[o])

\* C2: an order whose every attempt raises is attempted exactly MAX_RETRY times,
\* and then failed is written exactly once and one failed StatusUpdate is published.
C2_RetriedThenFailedOnce ==
  \A j \in JobIds :
    Ended(j) /\ jobs[j].raised = jobs[j].attemptsMade =>
      /\ jobs[j].attemptsMade = MAX_RETRY
      /\ Count(written[jobs[j].data.orderId], "failed") = 1
      /\ Cardinality({i \in 1..Len(published[jobs[j].data.orderId]) :
                        published[jobs[j].data.orderId][i].status = "failed"}) = 1

\* C3: an attempt in which an error was raised is reported to the queue as failed,
\* and failed is not written to the record before the attempt limit is exhausted.
C3_AttemptFailureReported ==
  \A j \in JobIds :
    /\ jobs[j].raised > 0 => jobs[j].state # "completed"
    /\ "failed" \in Range(written[jobs[j].data.orderId]) =>
         jobs[j].attemptsMade >= MAX_RETRY

\* C21: an attempt in which a status write raised is reported to the queue as
\* failed: its job is not completed, and has failed when it has ended.
C21_LostWriteFailsAttempt ==
  \A j \in JobIds :
    jobs[j].writeLost =>
      /\ jobs[j].state # "completed"
      /\ Ended(j) => jobs[j].state = "failed"

\* C22: a record with status failed has an errorMessage, and a failed
\* StatusUpdate that was published carries the error in its error field.
C22_FailureCarriesError ==
  /\ \A o \in DOMAIN orders :
       orders[o].status = "failed" => orders[o].errorMessage # Null
  /\ \A o \in DOMAIN published : \A i \in 1..Len(published[o]) :
       published[o][i].status = "failed" => "error" \in DOMAIN published[o][i]

C11_PublishFailureIgnored ==
  /\ \A w \in Workers :
       /\ worker[w].pc # "idle"
       /\ jobs[worker[w].job].attemptsMade = 1
       /\ worker[w].pubErrors = faults
       => worker[w].pc \notin {"catch", "pub_failed"}
  /\ \A j \in JobIds :
       Ended(j) /\ jobs[j].attemptsMade = 1 /\ jobs[j].pubErrors = faults =>
         /\ jobs[j].state = "completed"
         /\ jobs[j].raised = 0
         /\ written[jobs[j].data.orderId] = Happy

\* C11 witness: a job completed after a publish failed, with the full history
C11_Witness ==
  \E j \in JobIds :
    /\ jobs[j].state = "completed"
    /\ jobs[j].pubErrors > 0
    /\ written[jobs[j].data.orderId] = Happy
    /\ Len(published[jobs[j].data.orderId]) < Len(Happy) - 1

\* a body with equal tokens, a token outside the supported set or an amount that
\* is not positive
Invalid(b) ==
  \/ b.tokenIn = b.tokenOut
  \/ b.tokenIn \notin Tokens
  \/ b.tokenOut \notin Tokens
  \/ b.amount <= 0

\* C12: a submission with equal tokens, an unsupported token or a non-positive
\* amount is answered with status 400, creates no order record and enqueues no
\* job: no such body is ever in the handler past the validation, and the step
\* that answers one answers 400 and leaves the records and the queue alone.
C12_InvalidRefused ==
  [][/\ \A p \in posts' : ~Invalid(p.body)
     /\ reply'.body # NoBody /\ Invalid(reply'.body) =>
          /\ reply'.code = 400
          /\ orders' = orders
          /\ posts' = posts
          /\ jobs' = jobs /\ queue' = queue]_vars

\* C12 witness: a body with a non-positive amount has just been answered 400
\* while the record of an accepted order exists
C12_Witness ==
  /\ reply.code = 400
  /\ Invalid(reply.body)
  /\ reply.body.amount <= 0
  /\ DOMAIN orders # {}

\* a body {tokenIn, tokenOut, amount} with two different supported tokens and a
\* positive amount, whatever else it carries
WellFormed(b) ==
  /\ b.tokenIn \in Tokens /\ b.tokenOut \in Tokens
  /\ b.tokenIn # b.tokenOut
  /\ b.amount > 0

\* C13: a submission whose body is {tokenIn, tokenOut, amount} with two different
\* supported tokens and a positive amount is answered, when the environment
\* raised no error, with status 200 and a body carrying orderId and status, and a
\* job is enqueued for it.
C13_ValidAccepted ==
  WellFormed(reply.body) /\ faults = 0 =>
    /\ reply.code = 200
    /\ reply.orderId # NoId
    /\ reply.status # Null
    /\ \E j \in JobIds : jobs[j].data.orderId = reply.orderId

\* C14: every message sent to a listener is a serialized StatusUpdate of the
\* order the listener attached to, with a status among routing, building,
\* submitted, confirmed, failed; no plain text is ever sent.
C14_OnlyStatusUpdates ==
  \A c \in Conns : \A i \in 1..Len(received[c]) :
    /\ received[c][i].text.kind = "json"
    /\ Parse(received[c][i].text).status \in
         {"routing", "building", "submitted", "confirmed", "failed"}
    /\ conns[c].state = "open" => Parse(received[c][i].text).orderId = conns[c].orderId

\* the quotes of the spec's example: A (price 100, fee 0.01), B (price 99, fee 0.02)
ExampleQuotes == <<Quote(Venues[1], 100, 1), Quote(Venues[2], 99, 2)>>

\* C15: getBestRoute returns one of the quotes, none has a smaller effective cost
\* price * (1 + fee), a quote of equal effective cost is of a venue declared
\* later, and for A (price 100, fee 0.01) and B (price 99, fee 0.02) it returns B.
C15_BestRouteMinimal ==
  bestRoute.state = "returned" =>
    LET b == bestRoute.quote IN
    /\ \E i \in 1..Len(quotes) : quotes[i] = b
    /\ \A i \in 1..Len(quotes) : Cost(b) <= Cost(quotes[i])
    /\ \A i \in 1..Len(quotes) :
         Cost(quotes[i]) = Cost(b) => \E k \in 1..i : quotes[k] = b
    /\ quotes = ExampleQuotes => b = ExampleQuotes[2]

\* C15 witness: getBestRoute has returned B for the quotes of the example
C15_Witness ==
  /\ quotes = ExampleQuotes
  /\ bestRoute.state = "returned"
  /\ bestRoute.quote.dex = Venues[2]

\* the statuses of the StatusUpdates published for an order
PublishedStatuses(o) == {published[o][i].status : i \in 1..Len(published[o])}

\* neither a venue nor a status past routing has been written or published
NothingPastRouting(o) ==
  /\ orders[o].selectedDex = Null
  /\ Range(written[o]) \cap {"building", "submitted", "confirmed"} = {}
  /\ PublishedStatuses(o) \cap {"building", "submitted", "confirmed"} = {}

\* C16: when the quote of a venue fails, getBestRoute fails as a whole: in that
\* attempt the execution goes to its catch block with no venue selected, and
\* neither selectedDex nor building, submitted or confirmed is written or
\* published.
C16_QuoteFailureFailsRouting ==
  /\ \A w \in Workers :
       /\ worker[w].pc # "idle"
       /\ worker[w].quoteFailed
       /\ jobs[worker[w].job].attemptsMade = 1
       => /\ worker[w].pc \in {"catch", "pub_failed"}
          /\ worker[w].dex = Null
          /\ NothingPastRouting(OrderOf(w))
  /\ \A j \in JobIds :
       Ended(j) /\ jobs[j].quoteFailed /\ jobs[j].attemptsMade = 1 =>
         NothingPastRouting(jobs[j].data.orderId)

\* C16 witness: the job of an order has ended after the quote of a venue failed,
\* with routing and failed written
C16_Witness ==
  \E j \in JobIds :
    /\ Ended(j) /\ jobs[j].quoteFailed
    /\ written[jobs[j].data.orderId] = <<"pending", "routing", "failed">>

\* the worker awaits a call of a venue that never settles
Hung(w) == worker[w].pc \in {"route_hung", "execute_hung"}

\* C17: a worker whose call of a venue never returns eventually takes the failure
\* path and becomes free for the next job.
C17_HungCallReleased ==
  \A w \in Workers : Hung(w) ~> (worker[w].pc = "idle")

\* C18: every accepted submission gets an orderId that no other accepted
\* submission has, also when the submissions are in the handler together: no
\* orderId is sent in two 200 replies, and none that a suspended request holds.
C18_OrderIdsUnique ==
  /\ \A id \in BagToSet(accepted) : CopiesIn(id, accepted) = 1
  /\ \A p \in posts : ~BagIn(p.id, accepted)
  /\ \A p \in posts : \A q \in posts : p.id = q.id => p = q

\* C18 witness: two submissions have been accepted that were in the handler
\* together: the one whose record was created second was answered first
C18_Witness ==
  /\ reply.code = 200
  /\ BagToSet(accepted) = {OrderId(1), OrderId(2)}
  /\ Len(jobs) = 2
  /\ jobs[1].data.orderId = OrderId(2)

Last(s) == s[Len(s)]

\* the status last written for the order has been published, or its publish
\* raised an error that publishOrderUpdate caught
LastWritePublished(o) ==
  \/ Last(written[o]) = "pending"
  \/ published[o] # <<>> /\ Last(published[o]).status = Last(written[o])
  \/ \E w \in Workers :
       worker[w].pc # "idle" /\ OrderOf(w) = o /\ worker[w].pubErrors > 0

\* C19: a StatusUpdate is published only with the status the record has, after
\* the write of that status, and the write of the next transition begins only
\* after the StatusUpdate of the one before it was published.
C19_WriteThenPublish ==
  [][\A o \in DOMAIN orders :
       /\ published'[o] # published[o] =>
            /\ written'[o] = written[o]
            /\ Last(published'[o]).status = orders[o].status
            /\ Last(published'[o]).status = Last(written[o])
       /\ written'[o] # written[o] =>
            /\ published'[o] = published[o]
            /\ LastWritePublished(o)]_vars

\* the place of a status in the state machine; confirmed and failed both end it
Rank(status) ==
  CASE status = "routing" -> 1
    [] status = "building" -> 2
    [] status = "submitted" -> 3
    [] status \in {"confirmed", "failed"} -> 4
    [] OTHER -> 0

VenuesNamed(o) ==
  {Last(published[o][i].message) :
     i \in {k \in 1..Len(published[o]) :
              published[o][k].status \in {"building", "submitted"}}}

\* C23: selectedDex is written at most once per order, in the write that sets
\* building; the venue named in the building and submitted StatusUpdates and
\* the venue execute is invoked on are the venue written.
C23_SelectedDexOnce ==
  \A o \in DOMAIN orders :
    /\ Count(written[o], "building") <= 1
    /\ orders[o].selectedDex # Null <=> "building" \in Range(written[o])
    /\ VenuesNamed(o) \subseteq {orders[o].selectedDex}
    /\ \A w \in Workers :
         /\ worker[w].pc \in {"execute", "write_confirmed", "pub_confirmed"}
         /\ OrderOf(w) = o
         => worker[w].dex = orders[o].selectedDex

\* C24: a record whose status is not confirmed has null executedPrice and null
\* txHash, and the record a worker has just written confirmed to holds the
\* result that executeSwap returned in that execution.
C24_ResultOnlyWhenConfirmed ==
  /\ \A o \in DOMAIN orders :
       orders[o].status # "confirmed" =>
         orders[o].executedPrice = Null /\ orders[o].txHash = Null
  /\ \A w \in Workers :
       worker[w].pc = "pub_confirmed" =>
         /\ worker[w].result \in SwapResults
         /\ orders[OrderOf(w)].txHash = worker[w].result.txHash
         /\ orders[OrderOf(w)].executedPrice = worker[w].result.executedPrice

\* the fields of a record the Engine never writes
Created(rec) ==
  [id |-> rec.id, orderType |-> rec.orderType, tokenIn |-> rec.tokenIn,
   tokenOut |-> rec.tokenOut, amount |-> rec.amount]

\* C25: a step that changes an order record is a step of a worker processing the
\* job of that order; it changes no other record and leaves id, orderType,
\* tokenIn, tokenOut and amount of the record as created.
C25_OnlyOwnRecordStatusFields ==
  [][\A o \in DOMAIN orders :
       orders'[o] # orders[o] =>
         /\ \E w \in Workers :
              /\ worker[w].pc # "idle" /\ OrderOf(w) = o
              /\ worker'[w] # worker[w]
         /\ \A x \in DOMAIN orders \ {o} : orders'[x] = orders[x]
         /\ Created(orders'[o]) = Created(orders[o])
         /\ orders'[o].id = o]_vars

\* C25 witness: an order has been processed to confirmed next to one that is
\* still pending, both records with the tokens and amount of their requests
C25_Witness ==
  \E o \in DOMAIN orders : \E x \in DOMAIN orders :
    /\ orders[o].status = "confirmed" /\ orders[x].status = "pending"
    /\ \A y \in {o, x} :
         /\ orders[y].id = y
         /\ orders[y].tokenIn = "ETH" /\ orders[y].tokenOut = "USDC"
         /\ orders[y].amount = 1

\* C26: a worker takes a job only when it is processing none, keeps the job
\* while it is processing it, and lets go of it only when the job is reported
\* completed or failed or when the Engine process exits.
C26_OneJobAtATime ==
  [][\A w \in Workers :
       /\ worker'[w].pc # "idle" /\ worker'[w].job # worker[w].job =>
            /\ worker[w].pc = "idle"
            /\ worker[w].ended # 0 => jobs[worker[w].ended].state # "active"
       /\ worker[w].pc # "idle" /\ worker'[w].pc = "idle" =>
            \/ jobs'[worker[w].job].state \in {"completed", "failed"}
            \/ faults' = faults + 1 /\ jobs' = jobs]_vars

\* C26 witness: a worker that ended the processing of one job is in the middle
\* of another
C26_Witness ==
  \E w \in Workers :
    /\ worker[w].pc \in {"pub_building", "write_submitted", "pub_submitted"}
    /\ worker[w].ended # 0
    /\ worker[w].ended # worker[w].job
    /\ Ended(worker[w].ended)

\* the worker is in the failure transition for a job for which the transition
\* has run to its end before: failed is written and published
SecondRun(w) ==
  /\ worker[w].pc \in {"catch", "pub_failed"}
  /\ jobs[worker[w].job].attemptsMade > 1
  /\ orders[OrderOf(w)].status = "failed"
  /\ "failed" \in PublishedStatuses(OrderOf(w))

\* C27: a second run of the failure transition for a job that raises no error
\* leaves the order record as the first run left it and publishes no second
\* failed StatusUpdate.
C27_FailureIdempotent ==
  [][\A w \in Workers :
       SecondRun(w) /\ worker'[w] # worker[w] /\ faults' = faults =>
         /\ orders'[OrderOf(w)] = orders[OrderOf(w)]
         /\ published'[OrderOf(w)] = published[OrderOf(w)]]_vars

\* the jobs enqueued for an order
JobsOf(o) == {j \in JobIds : jobs[j].data.orderId = o}

\* C28: every order whose submission was answered has exactly one job, no
\* order has more than one, and every job carries the id, tokenIn, tokenOut and
\* amount of a record that exists, created before the job was enqueued.
C28_OneJobPerOrder ==
  /\ \A o \in DOMAIN orders :
       Cardinality(JobsOf(o)) = IF o \in Acked THEN 1 ELSE 0
  /\ \A j \in JobIds :
       /\ jobs[j].data.orderId \in DOMAIN orders
       /\ LET rec == orders[jobs[j].data.orderId] IN
            jobs[j].data = [orderId |-> rec.id, tokenIn |-> rec.tokenIn,
                            tokenOut |-> rec.tokenOut, amount |-> rec.amount]

\* the JSON texts a handle was sent
Texts(h) ==
  {received[h][i].text :
     i \in {k \in 1..Len(received[h]) : received[h][k].text.kind = "json"}}

\* C5: a listener attached with the orderId of the reply before the worker
\* published, and still attached when the job has ended and no message is in
\* flight, was sent every StatusUpdate published for the order.
C5_EarlyListenerGetsAll ==
  \A c \in Conns :
    /\ conns[c].state = "open" /\ conns[c].early
    /\ \E j \in JobIds : jobs[j].data.orderId = conns[c].orderId /\ Ended(j)
    /\ channel = <<>> /\ fanout.state # "running"
    => \A i \in 1..Len(published[conns[c].orderId]) :
         Stringify(published[conns[c].orderId][i]) \in Texts(c)

\* C6: a record with status confirmed has selectedDex, executedPrice and txHash,
\* and an order whose job completed with no error raised has status confirmed.
C6_ConfirmedComplete ==
  /\ \A o \in DOMAIN orders :
       orders[o].status = "confirmed" =>
         /\ orders[o].selectedDex # Null
         /\ orders[o].executedPrice # Null
         /\ orders[o].txHash # Null
  /\ \A j \in JobIds :
       jobs[j].state = "completed" /\ jobs[j].raised = 0 =>
         orders[jobs[j].data.orderId].status = "confirmed"

\* C6 witness: a job completed without an error and its record is confirmed
C6_Witness ==
  \E j \in JobIds :
    /\ jobs[j].state = "completed" /\ jobs[j].raised = 0
    /\ orders[jobs[j].data.orderId].status = "confirmed"
    /\ orders[jobs[j].data.orderId].txHash # Null

\* the ids of the messages a handle was sent
Ids(h) == {received[h][i].id : i \in 1..Len(received[h])}

\* C7 as stated: a status update published while no handle is registered for its
\* order is never delivered to any handle.
C7_UnheardAtPublishDropped == \A h \in Handles : Ids(h) \cap quiet = {}

\* C7 amended: a status update whose handler run finds no handle registered for
\* its order is never delivered to any handle, and no unsubscribe raises.
C7_UnheardAtFanoutDropped ==
  /\ \A h \in Handles : \A d \in dropped : d.id \notin Ids(h)
  /\ calls = {}

\* C7 witness: confirmed was dropped for an order, a handle registered for that
\* order afterwards, and a later message was fanned out to it
C7_Witness ==
  \E d \in dropped : \E h \in Handles :
    /\ d.status = "confirmed"
    /\ h \in Registered(d.orderId)
    /\ Ids(h) # {}
    /\ fanout.state = "done"

\* the ids of the messages a handle has been sent after the step
IdsNext(h) == {received'[h][i].id : i \in 1..Len(received'[h])}

\* C8: when a handle is unsubscribed during a fanout before the fanout reached it,
\* the fanout does not raise, the handle is not sent the message and every other
\* handle registered when the fanout began is.
C8_UnsubscribeMidFanout ==
  [][fanout.state = "running" /\ fanout'.state # "running" /\ fanout.removed # {} =>
       /\ fanout'.state = "done"
       /\ \A h \in fanout.removed : fanout.id \notin IdsNext(h)
       /\ \A h \in fanout.start \ fanout.removed : fanout.id \in IdsNext(h)]_vars

\* C9: when the send to one handle fails during a fanout, every other handle
\* registered for the order is still sent the message.
C9_FailedSendIsolated ==
  [][fanout.state = "running" /\ fanout'.state = "raised" =>
       \A h \in fanout.start \ (fanout.removed \cup {fanout.to}) :
         fanout.id \in IdsNext(h)]_vars

\* C10: an unsubscribe that removes the last handle registered for an order
\* removes the entry of the order from the registry.
C10_EntryRemovedWithLastHandle ==
  [][\A o \in DOMAIN OrderMap :
       Registered(o) # {} /\ Registered(o)' = {} => o \notin DOMAIN OrderMap']_vars

\* how often a handle has been sent the message n after the step
TimesSentNext(h, n) ==
  Cardinality({i \in 1..Len(received'[h]) : received'[h][i].id = n})

\* the handles registered for a key after the step
RegisteredNext(o) ==
  IF o \in DOMAIN OrderMap' THEN Range(OrderMap'[o].clients) \ {Empty} ELSE {}

\* the fanout begins, or goes on to its next handle
FanoutMoves == fanout.state # "running" \/ fanout'.idx # fanout.idx

\* C29: a handle is sent a message only by the fanout of that message, which
\* picks only handles registered for the order of the message; when the fanout
\* ends, every handle that was registered for the order when it began (and not
\* unsubscribed before the fanout reached it, nor the one whose send raised) has
\* been sent the message exactly once, and no handle more than once.
C29_FanoutExactlyOnce ==
  [][/\ \A h \in Handles :
          received'[h] # received[h] =>
            /\ fanout.state = "running" /\ h = fanout.to
            /\ received'[h] = Append(received[h],
                                     [text |-> Stringify(fanout.data), id |-> fanout.id])
     /\ fanout'.state = "running" /\ FanoutMoves =>
          /\ fanout'.to \in RegisteredNext(fanout'.key)
          /\ fanout'.data.orderId = fanout'.key
     /\ fanout.state = "running" /\ fanout'.state # "running" =>
          \A h \in Handles :
            /\ TimesSentNext(h, fanout.id) <= 1
            /\ h \in fanout.start \ (fanout.removed \cup
                     (IF fanout'.state = "raised" THEN {fanout.to} ELSE {})) =>
                 TimesSentNext(h, fanout.id) = 1]_vars

\* C30: a handle subscribed for an orderId and not unsubscribed since is
\* registered for it, whether or not the registry had an entry for the orderId
\* when SubscribeToOrderUpdates was called; only a registered handle is sent the
\* status updates fanned out for the orderId.
C30_SubscribeRegisters ==
  \A c \in Conns :
    conns[c].state = "open" => c \in Registered(conns[c].orderId)

\* C31: whenever POST /execute-order has answered "order received" with an
\* orderId, a job for that orderId has been added to the queue.
C31_AckedOrderEnqueued ==
  \A o \in BagToSet(accepted) : JobsOf(o) # {}

\* C32: an order whose job has ended has a terminal status, confirmed or
\* failed, in its record, and a StatusUpdate with that status was published: no
\* order is left in routing, building or submitted after its job has ended.
C32_EndedJobTerminalStatus ==
  \A j \in JobIds :
    Ended(j) =>
      LET o == jobs[j].data.orderId IN
        /\ orders[o].status \in {"confirmed", "failed"}
        /\ orders[o].status \in PublishedStatuses(o)

\* the subscribe calls in force after the step
SubsNext(o, h) == {c \in calls' : c.key = o /\ c.handle = h}

\* how often a handle is in the clients of a key
TimesIn(m, o, h) == Cardinality({i \in 1..Len(m[o].clients) : m[o].clients[i] = h})

\* how often a handle has been sent the message n
TimesSent(h, n) ==
  Cardinality({i \in 1..Len(received[h]) : received[h][i].id = n})

\* C33: for an order with a registry entry, subscribing a handle that is
\* subscribed changes nothing: the handle is in the entry once, a fanout that no
\* unsubscribe interrupts sends it each message once, a single unsubscribe
\* removes it, and no fanout picks a handle that is not subscribed.
C33_SubscribeTwiceIsOnce ==
  [][\A o \in DOMAIN OrderMap : \A h \in Handles :
       /\ Subs(o, h) # {} /\ SubsNext(o, h) # {} /\ SubsNext(o, h) # Subs(o, h) =>
            /\ OrderMap' = OrderMap
            /\ fanout' = fanout
            /\ received' = received
       /\ SubsNext(o, h) # {} => TimesIn(OrderMap', o, h) = 1
       /\ Subs(o, h) # {} /\ SubsNext(o, h) = {} =>
            /\ h \notin RegisteredNext(o)
            /\ TimesIn(OrderMap', o, h) = 0
       /\ fanout'.state = "running" /\ FanoutMoves
            /\ fanout'.key = o /\ fanout'.to = h => SubsNext(o, h) # {}
       /\ fanout.state = "running" /\ fanout'.state = "done" /\ fanout.key = o
            /\ Empty \notin Range(OrderMap[o].clients)
            /\ h \in fanout.start
            /\ (\E c \in Subs(o, h) : c.times = 2) =>
              TimesSentNext(h, fanout.id) = 1]_vars

\* C33 witness: a handle subscribed twice and not unsubscribed has been sent,
\* once, a message published after its second subscribe, by a fanout that ended
C33_Witness ==
  \E h \in Handles : \E c \in calls :
    /\ c.handle = h /\ c.times = 2 /\ c.key \in DOMAIN OrderMap
    /\ fanout.state = "done"
    /\ \E n \in (c.after + 1)..msgCount : TimesSent(h, n) = 1

====
